---- MODULE Spec2Model ----
(***************************************************************************)
(* Model of packages/bindings/scripts: fetch_libseekdb.py,                 *)
(* libseekdb_url_config.py and the two per-platform wrapper scripts.       *)
(*                                                                         *)
(* The filesystem below the module root is a function from paths           *)
(* (sequences of names, relative to the module root) to nodes: "dir" for a *)
(* directory, any other string for the content of a regular file.          *)
(* Symbolic links are not modelled.                                        *)
(***************************************************************************)
EXTENDS Integers, Sequences, FiniteSets, TLC

\* Longest archive (number of zip entries) served by the download URL.
MaxEntries == 2

VARIABLES
  fs,        \* the filesystem
  archive,   \* zf.namelist() of the zip behind the URL: a sequence of paths
  pc,        \* position of the running script
  op,        \* entry point of the running script
  out,       \* output_dir of the running fetch_libseekdb
  zarg,      \* third argument of fetch_libseekdb (local_zip_name)
  plat,      \* (system, machine) read by fetch_if_empty
  zip_url,   \* URL handed to fetch_libseekdb: <<prefix, archive filename>>
  warned,    \* an unsupported-platform warning was printed
  idx,       \* loop index i of the extraction loop (next entry)
  err,       \* exception that ended the script, "none" if none
  failed,    \* the step of fetch_libseekdb that raised it
  steps,     \* steps the running call has executed, in order
  ndl,       \* calls of urlretrieve made by the running script
  fs0,       \* filesystem when the running script started
  sysplat,   \* sys.platform read by _sign_dylibs_macos
  attempts,  \* codesign invocations of the running script, in order
  prevFetched, \* the previous script was fetch_if_empty, fetched and succeeded
  everFetched  \* some earlier fetch_if_empty fetched and succeeded

vars == <<fs, archive, pc, op, out, zarg, plat, zip_url, warned, idx, err, failed,
          steps, ndl, fs0, sysplat, attempts, prevFetched, everFetched>>

(***************************************************************************)
(* Paths and the os / shutil primitives the scripts use.                   *)
(***************************************************************************)
module_root == <<>>

IsPrefix(p, q) == Len(p) <= Len(q) /\ SubSeq(q, 1, Len(p)) = p

Prefixes(p) == {SubSeq(p, 1, n) : n \in 1..Len(p)}

dirname(p) == SubSeq(p, 1, Len(p) - 1)

join(p, name) == Append(p, name)

Restrict(f, S) == [q \in S |-> f[q]]

exists(f, p) == p \in DOMAIN f

isdir(f, p) == p \in DOMAIN f /\ f[p] = "dir"

isfile(f, p) == p \in DOMAIN f /\ f[p] # "dir"

listdir(f, p) == {q[Len(p) + 1] : q \in {r \in DOMAIN f : Len(r) = Len(p) + 1 /\ IsPrefix(p, r)}}

rmtree(f, p) == Restrict(f, {q \in DOMAIN f : ~IsPrefix(p, q)})

\* os.makedirs succeeds only when no component of p is a regular file.
CanMakedirs(f, p) == \A q \in Prefixes(p) : ~isfile(f, q)

makedirs(f, p) == [q \in DOMAIN f \cup Prefixes(p) |-> IF q \in DOMAIN f THEN f[q] ELSE "dir"]

\* Opening p for writing succeeds when its parent is a directory (the module
\* root always is) and p itself is not a directory.
CanOpenForWrite(f, p) == (Len(p) = 1 \/ isdir(f, dirname(p))) /\ ~isdir(f, p)

writefile(f, p, c) == [q \in DOMAIN f \cup {p} |-> IF q = p THEN c ELSE f[q]]

\* shutil.copytree(src, dst, dirs_exist_ok=True)
Under(f, src) == {q \in DOMAIN f : IsPrefix(src, q)}

Rebase(q, src, dst) == dst \o SubSeq(q, Len(src) + 1, Len(q))

CanCopytree(f, src, dst) ==
  /\ CanMakedirs(f, dst)
  /\ \A q \in Under(f, src) :
       IF f[q] = "dir" THEN ~isfile(f, Rebase(q, src, dst)) ELSE ~isdir(f, Rebase(q, src, dst))

copytree(f, src, dst) ==
  LET copied == {Rebase(q, src, dst) : q \in Under(f, src)}
      from(p) == src \o SubSeq(p, Len(dst) + 1, Len(p))
  IN  [p \in DOMAIN f \cup Prefixes(dst) \cup copied |->
         IF p \in copied THEN f[from(p)] ELSE IF p \in DOMAIN f THEN f[p] ELSE "dir"]

\* zipfile.ZipFile.extract(name, output_dir): creates the missing parent
\* directories of the target, then writes the member.
CanExtract(f, target) == CanMakedirs(f, dirname(target)) /\ ~isdir(f, target)

extract(f, target, c) == writefile(makedirs(f, dirname(target)), target, c)

(***************************************************************************)
(* libseekdb_url_config.py                                                 *)
(***************************************************************************)
LIBSEEKDB_URL_PREFIX == "https://oceanbase-seekdb-builds.s3.ap-southeast-1.amazonaws.com/libseekdb/all_commits/347e3a1c7a1af979d4be5fc6a74a5817cf3af7b0/"

UNSUPPORTED_PLATFORMS == {"darwin_x64"}

get_zip_url(platform_zip_name) == <<LIBSEEKDB_URL_PREFIX, platform_zip_name>>

is_platform_supported(platform_key) == platform_key \notin UNSUPPORTED_PLATFORMS

(***************************************************************************)
(* fetch_libseekdb.py: the pure parts                                      *)
(***************************************************************************)
has_lib(f, output_dir) ==
  \/ isfile(f, join(output_dir, "libseekdb.dylib"))
  \/ isfile(f, join(output_dir, "libseekdb.so"))

\* _need_fetch looking for libseekdb.dylib only.
_need_fetch_dylib_only(f, output_dir) ==
  IF ~exists(f, output_dir) \/ ~isdir(f, output_dir) THEN TRUE
  ELSE IF listdir(f, output_dir) = {} THEN TRUE
  ELSE ~isfile(f, join(output_dir, "libseekdb.dylib"))

\* _need_fetch returning after the listdir test.
_need_fetch_nonempty(f, output_dir) ==
  IF ~exists(f, output_dir) \/ ~isdir(f, output_dir) THEN TRUE
  ELSE listdir(f, output_dir) = {}

_need_fetch(f, output_dir) ==
  IF ~exists(f, output_dir) \/ ~isdir(f, output_dir) THEN TRUE
  ELSE IF listdir(f, output_dir) = {} THEN TRUE
  ELSE ~has_lib(f, output_dir)

\* _ensure_output_dir_valid without the empty-directory branch.
_ensure_output_dir_valid_keep_empty(f, output_dir) ==
  IF ~exists(f, output_dir) \/ ~isdir(f, output_dir) THEN f
  ELSE IF listdir(f, output_dir) # {} /\ ~has_lib(f, output_dir) THEN rmtree(f, output_dir)
  ELSE f

_ensure_output_dir_valid(f, output_dir) ==
  IF ~exists(f, output_dir) \/ ~isdir(f, output_dir) THEN f
  ELSE IF listdir(f, output_dir) = {} THEN rmtree(f, output_dir)
  ELSE IF ~has_lib(f, output_dir) THEN rmtree(f, output_dir)
  ELSE f

\* Lines 80-84; the source directory is module_root/libseekdb/libs whatever
\* output_dir the fetch used.
src_libs(mr) == mr \o <<"libseekdb", "libs">>

dst_libs(mr) == mr \o <<"pkgs", "js-bindings", "libs">>

CanCopyLibs(f, mr) ==
  /\ CanMakedirs(f, mr \o <<"pkgs", "js-bindings">>)
  /\ isdir(f, src_libs(mr)) => CanCopytree(f, src_libs(mr), dst_libs(mr))

copy_libs_to_package(f, mr) ==
  LET f1 == makedirs(f, mr \o <<"pkgs", "js-bindings">>)
  IN  IF isdir(f1, src_libs(mr)) THEN copytree(f1, src_libs(mr), dst_libs(mr)) ELSE f1

\* Lines 129-139 of fetch_if_empty.
arch(machine) == IF machine \in {"arm64", "aarch64"} THEN "arm64" ELSE "x64"

resolve_zip_name(system, machine) ==
  IF system = "darwin"
  THEN (IF arch(machine) = "arm64" THEN "libseekdb-darwin-arm64.zip" ELSE "libseekdb-darwin-x64.zip")
  ELSE (IF arch(machine) = "arm64" THEN "libseekdb-linux-arm64.zip" ELSE "libseekdb-linux-x64.zip")

(***************************************************************************)
(* The environment: what the disk, the server and the host can be.         *)
(***************************************************************************)
EmptyFS == [p \in {} |-> "dir"]

File(p, c) == p :> c

Dir(p) == p :> "dir"

\* States of module_root/libseekdb before the scripts run.
LibseekdbStates ==
  { EmptyFS,
    File(<<"libseekdb">>, "old"),
    Dir(<<"libseekdb">>),
    Dir(<<"libseekdb">>) @@ File(<<"libseekdb", "seekdb.h">>, "old"),
    Dir(<<"libseekdb">>) @@ Dir(<<"libseekdb", "libseekdb.so">>),
    Dir(<<"libseekdb">>) @@ File(<<"libseekdb", "libseekdb.so">>, "old"),
    Dir(<<"libseekdb">>) @@ File(<<"libseekdb", "libseekdb.dylib">>, "old")
      @@ Dir(<<"libseekdb", "libs">>) @@ File(<<"libseekdb", "libs", "b.dylib">>, "old") }

\* States of module_root/pkgs before the scripts run.
PkgsStates ==
  { EmptyFS,
    Dir(<<"pkgs">>) @@ Dir(<<"pkgs", "js-bindings">>)
      @@ File(<<"pkgs", "js-bindings", "libseekdb.dylib">>, "old")
      @@ Dir(<<"pkgs", "js-bindings", "libs">>)
      @@ File(<<"pkgs", "js-bindings", "libs", "a.dylib">>, "old")
      @@ File(<<"pkgs", "js-bindings", "libs", "c.so">>, "old") }

\* Names that satisfy name.endswith(".dylib").
DylibNames == {"libseekdb.dylib", "a.dylib", "b.dylib"}

\* Members a served archive is made of.
EntryNames == { <<"libseekdb.so">>, <<"libs", "a.dylib">>, <<"sub", "libseekdb.so">> }

Archives ==
  {a \in UNION {[1..k -> EntryNames] : k \in 0..MaxEntries} :
     \A i, j \in DOMAIN a : i # j => a[i] # a[j]}

\* (platform.uname()[0].lower(), platform.machine().lower()) of the host.
Platforms ==
  { [system |-> "darwin",  machine |-> "arm64"],
    [system |-> "darwin",  machine |-> "x86_64"],
    [system |-> "linux",   machine |-> "aarch64"],
    [system |-> "linux",   machine |-> "x86_64"],
    [system |-> "linux",   machine |-> "riscv64"],
    [system |-> "windows", machine |-> "amd64"] }

NoPlat == [system |-> "-", machine |-> "-"]

NoUrl == <<"-", "-">>

NoStep == <<"none", 0>>

\* sys.platform of the host.
SysPlatforms == {"darwin", "linux"}

\* output_dir values fetch_libseekdb is called with.
OutputDirs == { <<"libseekdb">>, <<"out">> }

\* The list the linux wrapper passes as third argument.
files == "[seekdb.h, libseekdb.so]"

IsPathLike(a) == a # files

Init ==
  /\ \E l \in LibseekdbStates, k \in PkgsStates : fs = l @@ k
  /\ archive \in Archives
  /\ pc = "idle"
  /\ op = "-"
  /\ out = <<>>
  /\ zarg = "-"
  /\ plat = NoPlat
  /\ zip_url = NoUrl
  /\ warned = FALSE
  /\ idx = 0
  /\ err = "none"
  /\ failed = NoStep
  /\ steps = <<>>
  /\ ndl = 0
  /\ fs0 = fs
  /\ sysplat = "-"
  /\ attempts = <<>>
  /\ prevFetched = FALSE
  /\ everFetched = FALSE

(***************************************************************************)
(* Running a script.  A script starts when none is running; Enter records  *)
(* what the new run starts from, Return is the exit of the script.         *)
(***************************************************************************)
Idle == pc = "idle"

Enter(o) ==
  /\ Idle
  /\ op' = o
  /\ fs0' = fs
  /\ failed' = NoStep
  /\ steps' = <<>>
  /\ ndl' = 0
  /\ idx' = 0
  /\ attempts' = <<>>
  /\ UNCHANGED <<archive, prevFetched, everFetched>>

\* An exception swallowed (try/except: pass around the step).
Propagate_swallow(e, next) == next

\* An exception is not caught anywhere in fetch_libseekdb.py: it ends the script.
Propagate(e, next) == IF e = "none" THEN next ELSE "done"

\* fetch_if_empty, lines 121-142, up to the call of fetch_libseekdb.
fetch_if_empty ==
  /\ Enter("fetch_if_empty")
  /\ LET output_dir == join(module_root, "libseekdb") IN
     /\ out' = output_dir
     /\ IF ~_need_fetch(fs, output_dir)
        THEN /\ pc' = "done"
             /\ plat' = NoPlat
             /\ zip_url' = NoUrl
             /\ zarg' = "-"
             /\ err' = "none"
        ELSE /\ \E pl \in Platforms :
                  /\ plat' = pl
                  /\ zip_url' = get_zip_url(resolve_zip_name(pl.system, pl.machine))
             /\ zarg' = "libseekdb.zip"
             /\ err' = "none"
             /\ pc' = "validate"
  /\ warned' = FALSE
  /\ UNCHANGED <<fs, sysplat>>

\* A direct call fetch_libseekdb(zip_url, output_dir, local_zip_name).
fetch_libseekdb(output_dir) ==
  /\ Enter("fetch_libseekdb")
  /\ out' = output_dir
  /\ zarg' = "libseekdb.zip"
  /\ zip_url' = get_zip_url("libseekdb-linux-x64.zip")
  /\ err' = "none"
  /\ pc' = "validate"
  /\ plat' = NoPlat
  /\ warned' = FALSE
  /\ UNCHANGED <<fs, sysplat>>

\* Number of required positional parameters of fetch_libseekdb (line 44).
fetch_libseekdb_params == 3

\* Python binds the arguments of a call before the body runs.
Bind(nargs) == IF nargs = fetch_libseekdb_params THEN "none" ELSE "TypeError"

\* fetch_libseekdb_linux_x64.py
fetch_libseekdb_linux_x64 ==
  /\ Enter("fetch_libseekdb_linux_x64")
  /\ zip_url' = <<"https://github.com/oceanbase/seekdb/releases/download/v1.1.0/", "libseekdb-linux-x64.zip">>
  /\ out' = <<"libseekdb">>
  /\ zarg' = files
  /\ LET e == Bind(Len(<<zip_url', out', zarg'>>)) IN
       /\ pc' = Propagate(e, "validate")
       /\ err' = e
  /\ plat' = NoPlat
  /\ warned' = FALSE
  /\ UNCHANGED <<fs, sysplat>>

\* fetch_libseekdb_darwin_x64.py
PLATFORM_KEY == "darwin_x64"

ZIP_NAME == "libseekdb-darwin-x64.zip"

fetch_libseekdb_darwin_x64 ==
  /\ Enter("fetch_libseekdb_darwin_x64")
  /\ warned' = ~is_platform_supported(PLATFORM_KEY)
  /\ zip_url' = get_zip_url(ZIP_NAME)
  /\ out' = <<"libseekdb">>
  /\ zarg' = "-"
  /\ LET e == Bind(Len(<<zip_url', out'>>)) IN
       /\ pc' = Propagate(e, "validate")
       /\ err' = e
  /\ plat' = NoPlat
  /\ UNCHANGED <<fs, sysplat>>

(***************************************************************************)
(* The body of fetch_libseekdb, lines 49-72, one action per step.          *)
(***************************************************************************)
Step(kind, i, e) ==
  /\ steps' = Append(steps, <<kind, i>>)
  /\ failed' = IF e = "none" THEN failed ELSE <<kind, i>>

\* Lines 49-53: validate, create the destination, build local_zip_path.
Validate ==
  /\ pc = "validate"
  /\ LET f1 == _ensure_output_dir_valid(fs, out)
         e  == IF IsPathLike(zarg) THEN "none" ELSE "TypeError"
     IN  /\ fs' = IF ~exists(f1, out) THEN makedirs(f1, out) ELSE f1
         /\ err' = e
         /\ pc' = Propagate(e, "download")
         /\ Step("validate", 0, e)
  /\ UNCHANGED <<archive, op, out, zarg, plat, zip_url, warned, idx, ndl, fs0,
                 sysplat, attempts, prevFetched, everFetched>>

\* What urlretrieve can do: fetch everything, fail before the local file is
\* opened, or fail after part of it was written.
DownloadOutcomes(f, local_zip_path) ==
  IF CanOpenForWrite(f, local_zip_path)
  THEN { [e |-> "none", f |-> writefile(f, local_zip_path, "new")],
         [e |-> "URLError", f |-> f],
         [e |-> "ContentTooShortError", f |-> writefile(f, local_zip_path, "part")] }
  ELSE { [e |-> "URLError", f |-> f], [e |-> "OSError", f |-> f] }

\* Line 56.
Download ==
  /\ pc = "download"
  /\ \E r \in DownloadOutcomes(fs, join(out, zarg)) :
       /\ fs' = r.f
       /\ err' = r.e
       /\ pc' = Propagate(r.e, IF Len(archive) = 0 THEN "copy" ELSE "extract")
       /\ Step("download", 0, r.e)
  /\ idx' = 1
  /\ ndl' = ndl + 1
  /\ UNCHANGED <<archive, op, out, zarg, plat, zip_url, warned, fs0,
                 sysplat, attempts, prevFetched, everFetched>>

\* What zf.extract can do: write the member, fail before the target is
\* opened, or fail leaving a truncated target.
ExtractOutcomes(f, target) ==
  IF CanExtract(f, target)
  THEN { [e |-> "none", f |-> extract(f, target, "new")],
         [e |-> "OSError", f |-> f],
         [e |-> "OSError", f |-> extract(f, target, "part")] }
  ELSE { [e |-> "OSError", f |-> f] }

\* Lines 63-64: one iteration of the loop over zf.namelist().
Extract ==
  /\ pc = "extract"
  /\ idx \in 1..Len(archive)
  /\ \E r \in ExtractOutcomes(fs, out \o archive[idx]) :
       /\ fs' = r.f
       /\ err' = IF r.e = "none" THEN err ELSE r.e
       /\ pc' = Propagate(r.e, IF idx = Len(archive) THEN "copy" ELSE "extract")
       /\ Step("extract", idx, r.e)
  /\ idx' = idx + 1
  /\ UNCHANGED <<archive, op, out, zarg, plat, zip_url, warned, ndl, fs0,
                 sysplat, attempts, prevFetched, everFetched>>

\* Lines 71-72.
CopyLibs ==
  /\ pc = "copy"
  /\ LET mr == dirname(out) IN
       IF CanCopyLibs(fs, mr)
       THEN fs' = copy_libs_to_package(fs, mr) /\ err' = err /\ Step("copy", 0, "none")
       ELSE fs' = fs /\ err' = "OSError" /\ Step("copy", 0, "OSError")
  /\ pc' = "done"
  /\ UNCHANGED <<archive, op, out, zarg, plat, zip_url, warned, idx, ndl, fs0,
                 sysplat, attempts, prevFetched, everFetched>>

\* __main__ --copy-only, lines 149-150.
copy_only ==
  /\ Enter("copy_only")
  /\ IF CanCopyLibs(fs, module_root)
     THEN fs' = copy_libs_to_package(fs, module_root) /\ err' = "none"
     ELSE fs' = fs /\ err' = "OSError"
  /\ pc' = "done"
  /\ out' = <<>>
  /\ zarg' = "-"
  /\ plat' = NoPlat
  /\ zip_url' = NoUrl
  /\ warned' = FALSE
  /\ UNCHANGED sysplat

(***************************************************************************)
(* _sign_dylibs_macos, lines 87-105.                                       *)
(***************************************************************************)
bindings_dir == module_root \o <<"pkgs", "js-bindings">>

main_dylib == join(bindings_dir, "libseekdb.dylib")

libs_dir == join(bindings_dir, "libs")

Range(s) == {s[i] : i \in DOMAIN s}

\* The invocations of codesign still to come.
MainPending(f, done) == isfile(f, main_dylib) /\ main_dylib \notin Range(done)

LibsPending(f, done) ==
  IF isdir(f, libs_dir)
  THEN {join(libs_dir, name) : name \in listdir(f, libs_dir) \cap DylibNames} \ Range(done)
  ELSE {}

\* What subprocess.run(["codesign", ...], check=False) can do: sign, exit
\* non-zero, or fail to start the tool.
CodesignOutcomes(f, target) ==
  { [e |-> "none", f |-> writefile(f, target, "signed")],
    [e |-> "none", f |-> f],
    [e |-> "FileNotFoundError", f |-> f] }

\* __main__ --sign-dylibs, lines 153-155 and 92-93.
sign_dylibs ==
  /\ Enter("sign_dylibs")
  /\ \E sp \in SysPlatforms :
       /\ sysplat' = sp
       /\ pc' = IF sp # "darwin" THEN "done" ELSE "sign"
  /\ err' = "none"
  /\ out' = <<>>
  /\ zarg' = "-"
  /\ plat' = NoPlat
  /\ zip_url' = NoUrl
  /\ warned' = FALSE
  /\ UNCHANGED fs

\* Lines 95-105: the next codesign invocation, or the end of the function.
Sign ==
  /\ pc = "sign"
  /\ IF ~MainPending(fs, attempts) /\ LibsPending(fs, attempts) = {}
     THEN /\ pc' = "done"
          /\ UNCHANGED <<fs, err, attempts>>
     ELSE \E target \in (IF MainPending(fs, attempts) THEN {main_dylib} ELSE LibsPending(fs, attempts)) :
          \E r \in CodesignOutcomes(fs, target) :
            /\ attempts' = Append(attempts, target)
            /\ fs' = r.f
            /\ err' = r.e
            /\ pc' = Propagate(r.e, "sign")
  /\ UNCHANGED <<archive, op, out, zarg, plat, zip_url, warned, idx, failed, steps, ndl, fs0,
                 sysplat, prevFetched, everFetched>>

\* The script exits; its locals are gone.
Return ==
  /\ pc = "done"
  /\ pc' = "idle"
  /\ op' = "-"
  /\ out' = <<>>
  /\ zarg' = "-"
  /\ plat' = NoPlat
  /\ zip_url' = NoUrl
  /\ warned' = FALSE
  /\ idx' = 0
  /\ err' = "none"
  /\ failed' = NoStep
  /\ steps' = <<>>
  /\ ndl' = 0
  /\ fs0' = fs
  /\ sysplat' = "-"
  /\ attempts' = <<>>
  /\ prevFetched' = (op = "fetch_if_empty" /\ err = "none" /\ ndl = 1)
  /\ everFetched' = (everFetched \/ prevFetched')
  /\ UNCHANGED <<fs, archive>>

Next ==
  \/ fetch_if_empty
  \/ fetch_libseekdb(join(module_root, "libseekdb"))
  \/ fetch_libseekdb_linux_x64
  \/ fetch_libseekdb_darwin_x64
  \/ copy_only
  \/ Validate
  \/ Download
  \/ Extract
  \/ CopyLibs
  \/ Return

Spec == Init /\ [][Next]_vars

\* fetch_libseekdb called with any output_dir.
NextDirect ==
  \/ \E o \in OutputDirs : fetch_libseekdb(o)
  \/ Validate
  \/ Download
  \/ Extract
  \/ CopyLibs
  \/ Return

SpecDirect == Init /\ [][NextDirect]_vars

\* The signing script, run on top of whatever --copy-only staged.
NextSign ==
  \/ sign_dylibs
  \/ Sign
  \/ copy_only
  \/ Return

SpecSign == Init /\ [][NextSign]_vars

(***************************************************************************)
(* Properties                                                              *)
(***************************************************************************)
FetchOps == {"fetch_if_empty", "fetch_libseekdb"}

WrapperOps == {"fetch_libseekdb_linux_x64", "fetch_libseekdb_darwin_x64"}

RootLibNames == { <<"libseekdb.so">>, <<"libseekdb.dylib">> }

RootLib(a) == \E i \in DOMAIN a : a[i] \in RootLibNames

\* The destination is a directory holding one of the two libraries as a regular file.
HoldsLibrary(f, d) ==
  /\ d \in DOMAIN f /\ f[d] = "dir"
  /\ \E n \in RootLibNames : (d \o n) \in DOMAIN f /\ f[d \o n] # "dir"

\* The filesystem after lines 49-51 ran on f.
Validated(f, d) ==
  LET f1 == _ensure_output_dir_valid(f, d) IN IF ~exists(f1, d) THEN makedirs(f1, d) ELSE f1

Without(f, p) == Restrict(f, DOMAIN f \ {p})

AllExtracted(f, d, a) == \A i \in DOMAIN a : (d \o a[i]) \in DOMAIN f /\ f[d \o a[i]] = "new"

(***************************************************************************)
(* C7                                                                      *)
(***************************************************************************)
Canon(a) ==
  << <<"validate", 0>>, <<"download", 0>> >> \o [i \in 1..Len(a) |-> <<"extract", i>>] \o << <<"copy", 0>> >>

\* C7: the steps of fetch_libseekdb run in the order validate/create, download,
\* extract the members in archive order, copy libs; the download is attempted at
\* most once; the step that raises is the last step that runs (no later member
\* is extracted, the libs copy is not run), the script ends with that error, and
\* a failed download leaves no member extracted.
C7_StepOrder ==
  /\ IsPrefix(steps, Canon(archive))
  /\ ndl = Cardinality({i \in DOMAIN steps : steps[i][1] = "download"})
  /\ ndl <= 1
  /\ failed # NoStep =>
       /\ steps # <<>>
       /\ steps[Len(steps)] = failed
       /\ pc = "done"
       /\ err # "none"
  /\ failed = <<"download", 0>> =>
       Without(fs, join(out, zarg)) = Without(Validated(fs0, out), join(out, zarg))

C7_Witness ==
  /\ pc = "done"
  /\ Len(archive) = 2
  /\ failed = <<"extract", 1>>
  /\ steps = << <<"validate", 0>>, <<"download", 0>>, <<"extract", 1>> >>

(***************************************************************************)
(* C8                                                                      *)
(***************************************************************************)
CheckedDirs == OutputDirs \cup {bindings_dir, libs_dir}

ShouldRemove(f, d) ==
  /\ d \in DOMAIN f /\ f[d] = "dir"
  /\ \/ \A q \in DOMAIN f : ~(Len(q) = Len(d) + 1 /\ IsPrefix(d, q))
     \/ \A n \in RootLibNames : ~((d \o n) \in DOMAIN f /\ f[d \o n] # "dir")

Removed(f, g, d) ==
  /\ DOMAIN g = {q \in DOMAIN f : ~IsPrefix(d, q)}
  /\ \A q \in DOMAIN g : g[q] = f[q]

AbortedFetch ==
  /\ pc = "done"
  /\ op \in FetchOps
  /\ _need_fetch(fs0, out)
  /\ failed[1] \in {"download", "extract"}

\* C9 as stated: after a fetch that started from a destination needing a fetch
\* and aborted during the download or an extraction, _need_fetch is still True.
C9_Original == AbortedFetch => _need_fetch(fs, out)

\* C9 amended: _need_fetch is still True when the abort came during the
\* download or while extracting a member up to which the archive has no
\* root-level libseekdb.so / libseekdb.dylib; it is False when such a member was
\* extracted before the failing one.
C9_Recovery ==
  AbortedFetch =>
    /\ failed[1] = "download" => _need_fetch(fs, out)
    /\ (failed[1] = "extract" /\ \A j \in 1..failed[2] : archive[j] \notin RootLibNames)
         => _need_fetch(fs, out)
    /\ (failed[1] = "extract" /\ \E j \in 1..(failed[2] - 1) : archive[j] \in RootLibNames)
         => ~_need_fetch(fs, out)

C9_Witness ==
  /\ AbortedFetch
  /\ op = "fetch_if_empty"
  /\ failed = <<"extract", 2>>
  /\ archive[1] \in RootLibNames
  /\ ~_need_fetch(fs, out)

(***************************************************************************)
(* C10                                                                     *)
(***************************************************************************)
\* C10: a fetch_if_empty that immediately follows a successful fetching
\* fetch_if_empty of an archive with libseekdb.so or libseekdb.dylib at its root
\* downloads nothing and leaves the filesystem unchanged; when the archive has
\* neither at its root, every later fetch_if_empty deletes the destination
\* with all it holds and downloads again.
C10_Idempotent ==
  /\ (pc = "done" /\ op = "fetch_if_empty" /\ prevFetched /\ RootLib(archive)) =>
       /\ ndl = 0
       /\ steps = <<>>
       /\ err = "none"
       /\ fs = fs0
  /\ (op = "fetch_if_empty" /\ everFetched /\ ~RootLib(archive)) =>
       /\ pc # "validate" => Len(steps) >= 1
       /\ Len(steps) = 1 =>
            /\ ShouldRemove(fs0, out)
            /\ isdir(fs, out) /\ \A q \in DOMAIN fs : IsPrefix(out, q) => q = out
       /\ pc = "done" => ndl = 1

C10_Witness ==
  /\ pc = "done"
  /\ op = "fetch_if_empty"
  /\ prevFetched
  /\ RootLib(archive)
  /\ isfile(fs, join(out, "libseekdb.zip"))
  /\ fs = fs0

(***************************************************************************)
(* C1                                                                      *)
(***************************************************************************)
\* C1: fetch_if_empty downloads, extracts and copies nothing and leaves the
\* filesystem unchanged when module_root/libseekdb is a directory holding
\* libseekdb.dylib or libseekdb.so as a regular file; in every other case it
\* runs one fetch_libseekdb, which creates the destination directory, downloads
\* the archive and (no I/O error raised) extracts all its members.
C1_FetchIfEmptyContract ==
  (op = "fetch_if_empty" /\ pc # "idle") =>
    IF HoldsLibrary(fs0, out)
    THEN pc = "done" /\ ndl = 0 /\ steps = <<>> /\ fs = fs0
    ELSE /\ pc = "done" => steps # <<>>
         /\ steps # <<>> => isdir(fs, out)
         /\ (pc = "done" /\ err = "none") => (ndl = 1 /\ AllExtracted(fs, out, archive))

(***************************************************************************)
(* C2                                                                      *)
(***************************************************************************)
\* C2: fetch_libseekdb performs no download when output_dir already holds the
\* shared library; it downloads only when the destination is missing, empty or
\* lacks it.
C2_SkipsWhenPresent ==
  (op \in {"fetch_libseekdb"} \cup WrapperOps /\ HoldsLibrary(fs0, out)) => ndl = 0

(***************************************************************************)
(* C3                                                                      *)
(***************************************************************************)
IOErrors == {"URLError", "ContentTooShortError", "OSError"}

\* C3: a per-platform wrapper script whose network, filesystem and archive
\* operations all succeed ends without an error, with every member of the
\* archive extracted into libseekdb; the darwin_x64 wrapper has printed its
\* warning.
C3_WrapperCompletes ==
  (op \in WrapperOps /\ pc = "done" /\ err \notin IOErrors) =>
    /\ err = "none"
    /\ AllExtracted(fs, out, archive)
    /\ op = "fetch_libseekdb_darwin_x64" => warned

(***************************************************************************)
(* C4                                                                      *)
(***************************************************************************)
Architecture(machine) ==
  IF machine \in {"arm64", "aarch64"} THEN "arm64"
  ELSE IF machine \in {"x64", "x86_64", "amd64"} THEN "x64"
  ELSE "other"

PlatformKey(system, a) ==
  CASE system = "darwin" /\ a = "arm64" -> "darwin_arm64"
    [] system = "darwin" /\ a = "x64"   -> "darwin_x64"
    [] system = "linux"  /\ a = "arm64" -> "linux_arm64"
    [] system = "linux"  /\ a = "x64"   -> "linux_x64"
    [] OTHER -> "unmapped"

ArchiveOf(key) ==
  CASE key = "darwin_arm64" -> "libseekdb-darwin-arm64.zip"
    [] key = "darwin_x64"   -> "libseekdb-darwin-x64.zip"
    [] key = "linux_arm64"  -> "libseekdb-linux-arm64.zip"
    [] key = "linux_x64"    -> "libseekdb-linux-x64.zip"
    [] OTHER -> "none"

\* C4: fetch_if_empty takes the archive filename of a mapped (system,
\* architecture) pair from the fixed table; for a pair with no mapping, or one
\* listed in UNSUPPORTED_PLATFORMS, it fails with an unsupported-platform error
\* or warns before it downloads anything.
C4_PlatformResolution ==
  (op = "fetch_if_empty" /\ plat # NoPlat) =>
    LET key == PlatformKey(plat.system, Architecture(plat.machine)) IN
      /\ key # "unmapped" => zip_url[2] = ArchiveOf(key)
      /\ (key = "unmapped" \/ key \in UNSUPPORTED_PLATFORMS) => (ndl > 0 => warned)

(***************************************************************************)
(* C5                                                                      *)
(***************************************************************************)
\* C5: once fetch_libseekdb(zip_url, output_dir, ...) has returned, every file
\* under output_dir/libs is at the same relative path, with the same content,
\* under dirname(output_dir)/pkgs/js-bindings/libs; without an output_dir/libs
\* directory, pkgs/js-bindings/libs is as it was.
C5_LibsStaged ==
  (op = "fetch_libseekdb" /\ pc = "done" /\ err = "none") =>
    LET src == join(out, "libs")
        dst == dirname(out) \o <<"pkgs", "js-bindings", "libs">>
    IN  IF isdir(fs, src)
        THEN \A q \in DOMAIN fs :
               (IsPrefix(src, q) /\ fs[q] # "dir") =>
                 (Rebase(q, src, dst) \in DOMAIN fs /\ fs[Rebase(q, src, dst)] = fs[q])
        ELSE Restrict(fs, Under(fs, dst)) = Restrict(fs0, Under(fs0, dst))

(***************************************************************************)
(* C6                                                                      *)
(***************************************************************************)
SignTargets(f) ==
  (IF isfile(f, main_dylib) THEN {main_dylib} ELSE {})
    \cup {q \in DOMAIN f : Len(q) = Len(libs_dir) + 1 /\ IsPrefix(libs_dir, q) /\ q[Len(q)] \in DylibNames}

\* C6: --sign-dylibs runs no codesign and changes nothing off darwin; on darwin
\* it attempts libseekdb.dylib (when a regular file) and every *.dylib directly
\* in libs, and a failed attempt neither raises nor stops the remaining ones.
C6_SignBestEffort ==
  (op = "sign_dylibs" /\ pc = "done") =>
    IF sysplat # "darwin"
    THEN attempts = <<>> /\ fs = fs0
    ELSE err = "none" /\ Range(attempts) = SignTargets(fs0)

====
